---- MODULE Spec2Model ----
(***************************************************************************)
(* Model of gradio-dashboard.py: the book catalog (a pandas DataFrame),    *)
(* the similarity index over the tagged descriptions, the query            *)
(* retrieve_semantic_recommendations and the formatter recommend_books     *)
(* that the "submit" button of the dashboard invokes.                      *)
(*                                                                         *)
(* A Python str is a sequence of one-character strings, so that strip,     *)
(* split, join and int are computed character by character.  A missing     *)
(* CSV field (pandas NaN) is the value NaN below, which is no str.         *)
(***************************************************************************)
EXTENDS Integers, Sequences, FiniteSets, TLC

\* ------------------------------------------------------------------ bounds
MaxRows == 2          \* rows of a small catalog file
MaxDocs == 2          \* lines of a small description file
MaxAuthors == 3       \* names in an authors field
ExtraWords == 2       \* words a description may have beyond the caption limit

\* ------------------------------------------------------- program constants
initial_top_k == 50   \* default of retrieve_semantic_recommendations
final_top_k == 16     \* default of retrieve_semantic_recommendations
CaptionWords == 30    \* truncated_desc_split[:30]

\* ------------------------------------------------------------ Python values
NaN == <<"<NaN>">>            \* pandas NaN (a float): no str method applies
None == <<"<None>">>          \* Python None
IsStr(v) == v # NaN /\ v # None

Str1(c) == <<c>>
Whitespace == {" ", "\n", "\t"}
Digits == <<"0", "1", "2", "3", "4", "5", "6", "7", "8", "9">>
DigitChars == {Digits[i] : i \in 1..10}

Min(a, b) == IF a <= b THEN a ELSE b

\* seq[:n]
Take(seq, n) == SubSeq(seq, 1, Min(n, Len(seq)))

\* str.strip(ch): drop the leading and trailing run of ch
RECURSIVE LStrip(_, _)
LStrip(s, ch) == IF s # <<>> /\ Head(s) = ch THEN LStrip(Tail(s), ch) ELSE s
RECURSIVE RStrip(_, _)
RStrip(s, ch) ==
  IF s # <<>> /\ s[Len(s)] = ch THEN RStrip(SubSeq(s, 1, Len(s) - 1), ch) ELSE s
Strip(s, ch) == RStrip(LStrip(s, ch), ch)

\* the k-th smallest element of a finite set of integers
Nth(S, k) == CHOOSE i \in S : Cardinality({j \in S : j < i}) = k - 1

\* str.split(sep) for a one-character sep: the pieces between the occurrences
\* of sep, empty pieces kept, so a string without sep is one piece
SplitOn(s, sep) ==
  LET cuts == {i \in 1..Len(s) : s[i] = sep}
      from(k) == IF k = 1 THEN 1 ELSE Nth(cuts, k - 1) + 1
      upto(k) == IF k = Cardinality(cuts) + 1 THEN Len(s) ELSE Nth(cuts, k) - 1
  IN  [k \in 1..(Cardinality(cuts) + 1) |-> SubSeq(s, from(k), upto(k))]

\* str.split(): the maximal runs of non-whitespace characters, in order
SplitWs(s) ==
  LET starts == {i \in 1..Len(s) :
                   s[i] \notin Whitespace /\ (i = 1 \/ s[i - 1] \in Whitespace)}
      ends == {i \in 1..Len(s) :
                 s[i] \notin Whitespace /\ (i = Len(s) \/ s[i + 1] \in Whitespace)}
  IN  [k \in 1..Cardinality(starts) |-> SubSeq(s, Nth(starts, k), Nth(ends, k))]

\* sep.join(parts)
RECURSIVE JoinRange(_, _, _, _)
JoinRange(sep, parts, lo, hi) ==
  IF lo > hi THEN <<>>
  ELSE IF lo = hi THEN parts[lo]
  ELSE LET mid == (lo + hi) \div 2
       IN  JoinRange(sep, parts, lo, mid) \o sep \o JoinRange(sep, parts, mid + 1, hi)
Join(sep, parts) == JoinRange(sep, parts, 1, Len(parts))

\* int(token): the decimal value, or a ValueError for anything but digits
DigitValue(c) == CHOOSE d \in 0..9 : Digits[d + 1] = c
IsIntLiteral(tok) == tok # <<>> /\ \A i \in 1..Len(tok) : tok[i] \in DigitChars
RECURSIVE IntOf(_)
IntOf(tok) ==
  IF Len(tok) = 1 THEN DigitValue(tok[1])
  ELSE 10 * IntOf(SubSeq(tok, 1, Len(tok) - 1)) + DigitValue(tok[Len(tok)])


\* decimal digits of a natural number, as a str
RECURSIVE StrOfNat(_)
StrOfNat(n) ==
  IF n < 10 THEN Str1(Digits[n + 1])
  ELSE StrOfNat(n \div 10) \o Str1(Digits[(n % 10) + 1])

\* ------------------------------------------------------------ input files
\* Labels compared only for equality are kept as one-element strings.
All == <<"All">>
Fiction == <<"Fiction">>
Nonfiction == <<"Nonfiction">>

\* one line of books_with_categories.csv, as pandas reads it
CsvRow(isbn, title, authors, description, category, thumbnail, emo) ==
  [isbn13 |-> isbn, title |-> title, authors |-> authors,
   description |-> description, simple_categories |-> category,
   thumbnail |-> thumbnail,
   joy |-> emo[1], surprise |-> emo[2], anger |-> emo[3], fear |-> emo[4],
   sadness |-> emo[5]]

\* one line of tagged_description.txt: the ISBN, a blank, the description
DocLine(isbn) == StrOfNat(isbn) \o <<" ", "x">>
QuotedDocLine(isbn) == <<"\"">> \o DocLine(isbn) \o <<"\"">>
MalformedDocLine == <<"x", " ", "1">>
QuotesOnlyDocLine == <<"\"", "\"">>

Url(n) == <<"h", "/">> \o StrOfNat(n)
ShortDescription == <<"1", " ", "2">>

\* the rows small catalogs are made of: two ISBNs, each carried by two rows
RowKinds ==
  << CsvRow(1, <<"T", "1">>, <<"A">>, ShortDescription, Fiction, Url(1),
            <<1, 2, 0, 1, 2>>),
     CsvRow(12, <<"T", "2">>, <<"A", ";", "B", " ", "b">>, ShortDescription, Nonfiction,
            NaN, <<2, 1, 1, 0, 2>>),
     CsvRow(1, <<"T", "3">>, <<"B", " ", "b", ";", "A", ";", "A">>, ShortDescription,
            Nonfiction, Url(3), <<2, 0, 1, 2, 1>>),
     CsvRow(12, <<"T", "4">>, NaN, ShortDescription, NaN, Url(4),
            <<0, 1, 2, 1, 0>>) >>

SeqsUpTo(S, n) == UNION {[1..k -> S] : k \in 0..n}

SmallCsvFiles ==
  {[i \in 1..Len(ks) |-> RowKinds[ks[i]]] : ks \in SeqsUpTo(1..Len(RowKinds), MaxRows)}

DocKinds == <<QuotedDocLine(1), DocLine(12), MalformedDocLine, QuotesOnlyDocLine>>

\* the description files over DocKinds, lines in a fixed order
RECURSIVE SubSeqsOf(_)
SubSeqsOf(seq) ==
  IF seq = <<>> THEN {<<>>}
  ELSE LET rest == SubSeqsOf(Tail(seq))
       IN  rest \cup {<<Head(seq)>> \o r : r \in rest}
SmallTxtFiles == {t \in SubSeqsOf(DocKinds) : Len(t) <= MaxDocs}

\* a catalog larger than the number of books displayed
BigRows == final_top_k + 3
BigIsbn(i) == 100 + i
BigCsvFile ==
  [i \in 1..BigRows |->
     CsvRow(BigIsbn(i), <<"T">> \o StrOfNat(i), <<"A">>, ShortDescription,
            IF i % 9 = 0 THEN Nonfiction ELSE Fiction, Url(i),
            <<i, (7 * i) % BigRows, (3 * i) % BigRows, BigRows - i,
              (5 * i) % BigRows>>)]
BigTxtFile == [i \in 1..BigRows |-> DocLine(BigIsbn(i))]

\* rows that exercise the caption: authors fields of 1..MaxAuthors names and
\* descriptions of few words, of about CaptionWords words, and none
Names == {<<"A">>, <<"B", " ", "b">>}
NameLists == SeqsUpTo(Names, MaxAuthors) \ {<<>>}
Semicolon == <<";">>
AuthorsField(names) == Join(Semicolon, names)

WordCounts == (0..2) \cup ((CaptionWords - 1)..(CaptionWords + ExtraWords))
Separators == {<<" ">>, <<" ", " ">>, <<"\n">>}
Paddings == {<<>>, <<" ">>}
Word(i) == StrOfNat(i)
DescriptionText(n, sep, pad) ==
  pad \o Join(sep, [i \in 1..n |-> Word(i)]) \o pad
DescriptionShapes ==
  {sh \in [n : WordCounts, sep : Separators, pad : Paddings] :
     \* an empty field is read as NaN, never as an empty str
     (sh.n = 0 => sh.pad # <<>>) /\ (sh.n <= 1 => sh.sep = <<" ">>)}

CaptionCsvFiles ==
  {<<CsvRow(1, <<"T">>, AuthorsField(names), ShortDescription, Fiction, Url(1),
            <<1, 1, 1, 1, 1>>)>> : names \in NameLists}
  \cup
  {<<CsvRow(1, <<"T">>, <<"A">>, DescriptionText(sh.n, sh.sep, sh.pad), Fiction,
            NaN, <<1, 1, 1, 1, 1>>)>> : sh \in DescriptionShapes}
  \cup
  {<<CsvRow(1, <<"T">>, <<"A">>, NaN, Fiction, Url(1), <<1, 1, 1, 1, 1>>)>>}

\* the pairs of input files the program is started on
InputFiles ==
  {[csv |-> c, txt |-> t] : c \in SmallCsvFiles, t \in SmallTxtFiles}
  \cup {[csv |-> c, txt |-> <<QuotedDocLine(1)>>] : c \in CaptionCsvFiles}
  \cup {[csv |-> BigCsvFile, txt |-> BigTxtFile]}

\* ---------------------------------------------------------------- startup
\* books["thumbnail"] + "&fife=w800", and np.where(isna, "cover-not-found.jpg", .)
ThumbnailSuffix == <<"&fife=w800">>
CoverNotFound == <<"cover-not-found.jpg">>
LargeThumbnail(thumbnail) ==
  LET appended == IF thumbnail = NaN THEN NaN ELSE thumbnail \o ThumbnailSuffix
  IN  IF appended = NaN THEN CoverNotFound ELSE appended

\* A DataFrame is the sequence of its rows; `index` is the row's label (the
\* RangeIndex read_csv gives), which every frame derived from it keeps.
Fields(r) == DOMAIN r
WithField(r, f, v) == [g \in Fields(r) \cup {f} |-> IF g = f THEN v ELSE r[g]]
LoadBooks(csv) ==
  [i \in 1..Len(csv) |->
     WithField(WithField(csv[i], "index", i - 1),
               "large_thumbnail", LargeThumbnail(csv[i].thumbnail))]

\* one document per line of the text file
BuildIndex(txt) == txt

\* ------------------------------------------------------------------ state
Sessions == {"s1", "s2"}      \* browser sessions of the dashboard

VARIABLES
  books,       \* the catalog DataFrame, a module global (lines 22-30)
  db_books,    \* the documents of the Chroma index, a module global (line 40)
  pc,          \* per session: where its call of the handler stands
  call,        \* per session: the function called and its arguments
  recs,        \* per session: the hits of similarity_search (line 54)
  book_recs,   \* per session: the frame of the query (lines 58-79)
  results,     \* per session: the list recommend_books builds (lines 91-113)
  exc          \* per session: the exception that ended the call, if any

vars == <<books, db_books, pc, call, recs, book_recs, results, exc>>

Range(f) == {f[i] : i \in DOMAIN f}

\* -------------------------------------------------- similarity_search(q, k)
\* The index returns the min(k, n) documents nearest to the query.  Which ones
\* is decided by the embedding of the query text, so any choice can occur.
RECURSIVE Choose(_, _)
Choose(seq, k) ==
  IF k = 0 THEN {<<>>}
  ELSE IF Len(seq) < k THEN {}
  ELSE {<<Head(seq)>> \o r : r \in Choose(Tail(seq), k - 1)}
       \cup Choose(Tail(seq), k)
SimilaritySearch(db, k) == Choose(db, Min(k, Len(db)))

\* ------------------------------------------ retrieve_semantic_recommendations
\* rec.page_content.strip('"').split()
ContentTokens(page_content) == SplitWs(Strip(page_content, "\""))

\* the exception the list comprehension of books_list raises, or "none":
\* [0] of an empty list is an IndexError, int of a non-number a ValueError,
\* and the first hit that fails decides
HitError(hit) ==
  IF ContentTokens(hit) = <<>> THEN "IndexError"
  ELSE IF ~IsIntLiteral(ContentTokens(hit)[1]) THEN "ValueError"
  ELSE "none"
BooksListError(hits) ==
  LET bad == {i \in 1..Len(hits) : HitError(hits[i]) # "none"}
  IN  IF bad = {} THEN "none"
      ELSE HitError(hits[CHOOSE i \in bad : \A j \in bad : i <= j])

\* [int(rec.page_content.strip('"').split()[0]) for rec in recs]
BooksList(hits) == [i \in 1..Len(hits) |-> IntOf(ContentTokens(hits[i])[1])]

\* Isin with the mask forgotten: the whole frame
Isin_NoMask(frame, col, values) == frame

\* frame[frame[col].isin(values)]
Isin(frame, col, values) == SelectSeq(frame, LAMBDA r : r[col] \in Range(values))

\* pandas' elementwise ==: a NaN cell equals nothing, and nothing equals None
PdEq(cell, value) == cell # NaN /\ value # None /\ cell = value

\* frame[frame[col] == value]
WhereEq(frame, col, value) == SelectSeq(frame, LAMBDA r : PdEq(r[col], value))

\* CategoryFilter without the head(final_top_k) of the else branch
CategoryFilter_NoFinalHead(frame, category, final_k) ==
  IF category # All
  THEN Take(WhereEq(frame, "simple_categories", category), final_k)
  ELSE frame

\* CategoryFilter that takes the default None for "no filter", as "All"
CategoryFilter_NoneIsAll(frame, category, final_k) ==
  IF category # All /\ category # None
  THEN Take(WhereEq(frame, "simple_categories", category), final_k)
  ELSE Take(frame, final_k)

\* book_recs after step 3 and after step 4
Candidates(catalog, hits, initial_k) ==
  Take(Isin(catalog, "isbn13", BooksList(hits)), initial_k)
CategoryFilter(frame, category, final_k) ==
  IF category # All
  THEN Take(WhereEq(frame, "simple_categories", category), final_k)
  ELSE Take(frame, final_k)

\* the if/elif chain on tone
Happy == <<"Happy">>
Surprising == <<"Surprising">>
Angry == <<"Angry">>
Suspenseful == <<"Suspenseful">>
Sad == <<"Sad">>
NoColumn == "-"
ToneColumn(tone) ==
  IF tone = Happy THEN "joy"
  ELSE IF tone = Surprising THEN "surprise"
  ELSE IF tone = Angry THEN "anger"
  ELSE IF tone = Suspenseful THEN "fear"
  ELSE IF tone = Sad THEN "sadness"
  ELSE NoColumn

RemoveAt(seq, i) == SubSeq(seq, 1, i - 1) \o SubSeq(seq, i + 1, Len(seq))

\* SortValues with ascending=True
RECURSIVE SortValues_Ascending(_, _)
SortValues_Ascending(frame, col) ==
  IF frame = <<>> THEN {<<>>}
  ELSE LET low == CHOOSE m \in {frame[i][col] : i \in 1..Len(frame)} :
                    \A i \in 1..Len(frame) : frame[i][col] >= m
       IN  UNION {{<<frame[i]>> \o rest :
                     rest \in SortValues_Ascending(RemoveAt(frame, i), col)} :
                    i \in {j \in 1..Len(frame) : frame[j][col] = low}}

\* frame.sort_values(by=col, ascending=False): the default sort kind is not
\* stable, so rows with equal keys may come out in any order
RECURSIVE SortValues(_, _)
SortValues(frame, col) ==
  IF frame = <<>> THEN {<<>>}
  ELSE LET top == CHOOSE m \in {frame[i][col] : i \in 1..Len(frame)} :
                    \A i \in 1..Len(frame) : frame[i][col] <= m
       IN  UNION {{<<frame[i]>> \o rest : rest \in SortValues(RemoveAt(frame, i), col)} :
                    i \in {j \in 1..Len(frame) : frame[j][col] = top}}

\* BooksAfterSortValues if book_recs were a view of the catalog: the sorted
\* rows are written to the catalog positions the frame covers
BooksAfterSortValues_View(catalog, sorted) ==
  LET covered == {sorted[k].index + 1 : k \in 1..Len(sorted)}
  IN  [i \in 1..Len(catalog) |->
         IF i \in covered
         THEN sorted[Cardinality({p \in covered : p <= i})]
         ELSE catalog[i]]

\* inplace=True replaces the data of the frame it is called on.  That frame
\* comes from books[mask], a copy, so the catalog keeps its rows.
BooksAfterSortValues(catalog, sorted) == catalog

\* Recommendations with the category filter applied to the whole catalog
\* selection, before the cut to initial_top_k
Recommendations_FilterFirst(catalog, hits, category, tone, initial_k, final_k) ==
  LET selected == Isin(catalog, "isbn13", BooksList(hits))
      ofCategory == IF category # All
                    THEN WhereEq(selected, "simple_categories", category)
                    ELSE selected
      filtered == Take(Take(ofCategory, initial_k), final_k)
  IN  IF ToneColumn(tone) = NoColumn THEN {filtered}
      ELSE SortValues(filtered, ToneColumn(tone))

\* Recommendations with the sort placed before the cut to final_top_k
Recommendations_SortBeforeCut(catalog, hits, category, tone, initial_k, final_k) ==
  LET candidates == Candidates(catalog, hits, initial_k)
      ofCategory == IF category # All
                    THEN WhereEq(candidates, "simple_categories", category)
                    ELSE candidates
  IN  IF ToneColumn(tone) = NoColumn THEN {Take(ofCategory, final_k)}
      ELSE {Take(f, final_k) : f \in SortValues(ofCategory, ToneColumn(tone))}

\* the frames the function may return (one, unless the sort meets equal keys)
Recommendations(catalog, hits, category, tone, initial_k, final_k) ==
  LET filtered == CategoryFilter(Candidates(catalog, hits, initial_k), category, final_k)
  IN  IF ToneColumn(tone) = NoColumn THEN {filtered}
      ELSE SortValues(filtered, ToneColumn(tone))

\* ------------------------------------------------------------ recommend_books
\* TruncatedDescription with the marker only where words were cut
TruncatedDescription_MarkerOnlyWhenCut(description) ==
  LET words == SplitWs(description)
  IN  IF Len(words) > 30
      THEN Join(<<" ">>, SubSeq(words, 1, 30)) \o <<".", ".", ".">>
      ELSE Join(<<" ">>, words)

\* " ".join(description.split()[:30]) + "..."
Space == <<" ">>
Ellipsis == <<".", ".", ".">>
TruncatedDescription(description) ==
  Join(Space, Take(SplitWs(description), CaptionWords)) \o Ellipsis

\* AuthorsStr without the comma before the final "and"
AuthorsStr_NoSerialComma(authors) ==
  LET authors_split == SplitOn(authors, ";")
      n == Len(authors_split)
  IN  IF n >= 2
      THEN Join(<<",", " ">>, SubSeq(authors_split, 1, n - 1))
             \o <<" ", "a", "n", "d", " ">> \o authors_split[n]
      ELSE authors

\* the if/elif/else on len(authors_split)
AuthorsStr(authors) ==
  LET authors_split == SplitOn(authors, ";")
      n == Len(authors_split)
  IN  IF n = 2
      THEN authors_split[1] \o <<" ", "a", "n", "d", " ">> \o authors_split[2]
      ELSE IF n > 2
      THEN Join(<<",", " ">>, SubSeq(authors_split, 1, n - 1))
             \o <<",", " ", "a", "n", "d", " ">> \o authors_split[n]
      ELSE authors

\* str(value) inside an f-string
Fmt(value) == IF value = NaN THEN <<"n", "a", "n">> ELSE value

\* f"{row['title']} by {authors_str}: {truncated_description}"
Caption(row) ==
  Fmt(row.title) \o <<" ", "b", "y", " ">> \o AuthorsStr(row.authors)
    \o <<":", " ">> \o TruncatedDescription(row.description)

\* a NaN cell is a float: description.split() and row["authors"].split(";")
\* raise AttributeError
RowError(row) ==
  IF ~IsStr(row.description) \/ ~IsStr(row.authors) THEN "AttributeError"
  ELSE "none"
FormatError(frame) ==
  IF \E i \in 1..Len(frame) : RowError(frame[i]) # "none" THEN "AttributeError"
  ELSE "none"

\* the list of (large_thumbnail, caption) pairs, in the order of the frame
FormatResults(frame) ==
  [i \in 1..Len(frame) |->
     [image |-> frame[i].large_thumbnail, caption |-> Caption(frame[i])]]

\* ---------------------------------------------------------------- actions
\* the values a caller passes
Calm == <<"Calm">>            \* a tone the if/elif chain does not know
Categories == {All, None, Fiction, Nonfiction}
Tones == {All, None, Happy, Surprising, Angry, Suspenseful, Sad, Calm}
\* initial_top_k, final_top_k of a direct call
DirectTopKs == {<<1, 1>>, <<2, 1>>}

NoCall == [fn |-> "-", category |-> None, tone |-> None,
           initial_top_k |-> 0, final_top_k |-> 0]

Init ==
  /\ \E f \in InputFiles :
       /\ books = LoadBooks(f.csv)
       /\ db_books = BuildIndex(f.txt)
  /\ pc = [s \in Sessions |-> "idle"]
  /\ call = [s \in Sessions |-> NoCall]
  /\ recs = [s \in Sessions |-> <<>>]
  /\ book_recs = [s \in Sessions |-> <<>>]
  /\ results = [s \in Sessions |-> <<>>]
  /\ exc = [s \in Sessions |-> "none"]

\* the function is entered and runs up to the return of similarity_search
Enter(s, fn, category, tone, initial_k, final_k) ==
  /\ pc[s] = "idle"
  /\ call' = [call EXCEPT ![s] =
                [fn |-> fn, category |-> category, tone |-> tone,
                 initial_top_k |-> initial_k, final_top_k |-> final_k]]
  /\ \E hits \in SimilaritySearch(db_books, initial_k) :
       recs' = [recs EXCEPT ![s] = hits]
  /\ pc' = [pc EXCEPT ![s] = "searched"]
  /\ UNCHANGED <<books, db_books, book_recs, results, exc>>

\* submit_button.click: recommend_books(query, category, tone), which calls
\* retrieve_semantic_recommendations with the default top-k values
Click(s) ==
  \E category \in Categories, tone \in Tones :
    Enter(s, "recommend_books", category, tone, initial_top_k, final_top_k)

\* retrieve_semantic_recommendations called with top-k values of its own
DirectCall(s) ==
  \E category \in Categories, tone \in Tones, k \in DirectTopKs :
    Enter(s, "retrieve_semantic_recommendations", category, tone, k[1], k[2])

\* steps 2 to 6 of retrieve_semantic_recommendations
Retrieve(s) ==
  /\ pc[s] = "searched"
  /\ IF BooksListError(recs[s]) # "none"
     THEN /\ exc' = [exc EXCEPT ![s] = BooksListError(recs[s])]
          /\ pc' = [pc EXCEPT ![s] = "raised"]
          /\ UNCHANGED <<books, book_recs>>
     ELSE /\ \E frame \in Recommendations(books, recs[s], call[s].category,
                                          call[s].tone, call[s].initial_top_k,
                                          call[s].final_top_k) :
               /\ book_recs' = [book_recs EXCEPT ![s] = frame]
               /\ books' = IF ToneColumn(call[s].tone) = NoColumn THEN books
                           ELSE BooksAfterSortValues(books, frame)
          /\ pc' = [pc EXCEPT ![s] = "retrieved"]
          /\ UNCHANGED exc
  /\ UNCHANGED <<db_books, call, recs, results>>

\* the loop of recommend_books over recommendations.iterrows()
Format(s) ==
  /\ pc[s] = "retrieved"
  /\ call[s].fn = "recommend_books"
  /\ IF FormatError(book_recs[s]) # "none"
     THEN /\ exc' = [exc EXCEPT ![s] = FormatError(book_recs[s])]
          /\ pc' = [pc EXCEPT ![s] = "raised"]
          /\ UNCHANGED results
     ELSE /\ results' = [results EXCEPT ![s] = FormatResults(book_recs[s])]
          /\ pc' = [pc EXCEPT ![s] = "formatted"]
          /\ UNCHANGED exc
  /\ UNCHANGED <<books, db_books, call, recs, book_recs>>

\* the call ends (its value or its exception goes to the caller) and its
\* locals are gone
Return(s) ==
  /\ \/ pc[s] \in {"formatted", "raised"}
     \/ pc[s] = "retrieved" /\ call[s].fn = "retrieve_semantic_recommendations"
  /\ pc' = [pc EXCEPT ![s] = "idle"]
  /\ call' = [call EXCEPT ![s] = NoCall]
  /\ recs' = [recs EXCEPT ![s] = <<>>]
  /\ book_recs' = [book_recs EXCEPT ![s] = <<>>]
  /\ results' = [results EXCEPT ![s] = <<>>]
  /\ exc' = [exc EXCEPT ![s] = "none"]
  /\ UNCHANGED <<books, db_books>>

\* One interaction at a time: the event dispatch runs a handler to its end
\* before it starts the next.
NoneRunning == \A t \in Sessions : pc[t] = "idle"
Next ==
  \E s \in Sessions :
    \/ NoneRunning /\ Click(s)
    \/ NoneRunning /\ DirectCall(s)
    \/ Retrieve(s)
    \/ Format(s)
    \/ Return(s)

Spec == Init /\ [][Next]_vars

\* Several sessions at once: every session's handler runs on its own thread
\* of the server, over one fixed pair of input files.
ConcurrentInput == [csv |-> RowKinds, txt |-> <<QuotedDocLine(1), DocLine(12)>>]
InitConcurrent ==
  /\ books = LoadBooks(ConcurrentInput.csv)
  /\ db_books = BuildIndex(ConcurrentInput.txt)
  /\ pc = [s \in Sessions |-> "idle"]
  /\ call = [s \in Sessions |-> NoCall]
  /\ recs = [s \in Sessions |-> <<>>]
  /\ book_recs = [s \in Sessions |-> <<>>]
  /\ results = [s \in Sessions |-> <<>>]
  /\ exc = [s \in Sessions |-> "none"]
NextConcurrent ==
  \E s \in Sessions :
    \/ Click(s)
    \/ DirectCall(s)
    \/ Retrieve(s)
    \/ Format(s)
    \/ Return(s)
SpecConcurrent == InitConcurrent /\ [][NextConcurrent]_vars

\* ------------------------------------------------------------------ claims
\* What the claims speak of, stated over row positions of the catalog and not
\* through the operators of the query.
Returned(s) == pc[s] \in {"retrieved", "formatted"}
HitIsbns(s) == {IntOf(ContentTokens(recs[s][i])[1]) : i \in 1..Len(recs[s])}
\* the first k positions of a set of positions
FirstK(S, k) == {i \in S : Cardinality({j \in S : j < i}) < k}
Matching(s) == {i \in 1..Len(books) : books[i].isbn13 \in HitIsbns(s)}
InitialCut(s) == FirstK(Matching(s), call[s].initial_top_k)
OfCategory(s, S) ==
  IF call[s].category = All THEN S
  ELSE {i \in S : books[i].simple_categories = call[s].category}
FinalCut(s) == FirstK(OfCategory(s, InitialCut(s)), call[s].final_top_k)
\* the catalog position of a returned record
Position(row) == row.index + 1
RecognizedTones == {Happy, Surprising, Angry, Suspenseful, Sad}
ClaimedColumn(tone) ==
  CASE tone = Happy -> "joy"
    [] tone = Surprising -> "surprise"
    [] tone = Angry -> "anger"
    [] tone = Suspenseful -> "fear"
    [] tone = Sad -> "sadness"
SameOrderAsRecords(s) ==
  /\ Len(results[s]) = Len(book_recs[s])
  /\ \A i \in 1..Len(results[s]) :
       results[s][i].image = book_recs[s][i].large_thumbnail

\* C1: a query returns at most final_top_k records, 16 under the defaults
\* recommend_books uses, and recommend_books at most 16 pairs.
C1_AtMostFinalTopK ==
  \A s \in Sessions :
    /\ Returned(s) => Len(book_recs[s]) <= call[s].final_top_k
    /\ (Returned(s) /\ call[s].fn = "recommend_books") =>
         /\ call[s].initial_top_k = 50 /\ call[s].final_top_k = 16
         /\ Len(book_recs[s]) <= 16
         /\ Len(results[s]) <= 16
C1_Witness ==
  \E s \in Sessions :
    /\ pc[s] = "formatted"
    /\ Cardinality(Matching(s)) > 16
    /\ Len(results[s]) = 16

\* C2: with a category other than "All" (None included), every returned
\* record has that category, whatever the tone.
C2_OnlyRequestedCategory ==
  \A s \in Sessions :
    (Returned(s) /\ call[s].category # All) =>
      \A i \in 1..Len(book_recs[s]) :
        book_recs[s][i].simple_categories = call[s].category
C2_Witness ==
  \E s \in Sessions :
    /\ Returned(s)
    /\ call[s].category = Fiction
    /\ book_recs[s] # <<>>
    /\ \E i \in InitialCut(s) : books[i].simple_categories # Fiction

\* C3: under a recognized tone the mapped emotion column is non-increasing
\* along the returned records, and the pairs of recommend_books follow them.
C3_NonIncreasingEmotion ==
  \A s \in Sessions :
    (Returned(s) /\ call[s].tone \in RecognizedTones) =>
      /\ \A i, j \in 1..Len(book_recs[s]) :
           i < j => book_recs[s][i][ClaimedColumn(call[s].tone)]
                      >= book_recs[s][j][ClaimedColumn(call[s].tone)]
      /\ pc[s] = "formatted" => SameOrderAsRecords(s)
C3_Witness ==
  \E s \in Sessions :
    /\ pc[s] = "formatted"
    /\ call[s].tone = Sad
    /\ Len(book_recs[s]) >= 2
    /\ book_recs[s][1].index > book_recs[s][2].index
    /\ book_recs[s][1].sadness > book_recs[s][2].sadness

\* C4: under tone "All" or an unrecognized tone the result is the catalog
\* rows of the hit ISBNs in catalog order, cut to initial_top_k, then those
\* of the category, then cut to final_top_k.
C4_CatalogOrderCutFilterCut ==
  \A s \in Sessions :
    (Returned(s) /\ call[s].tone \notin RecognizedTones) =>
      /\ Len(book_recs[s]) = Cardinality(FinalCut(s))
      /\ \A k \in 1..Len(book_recs[s]) :
           /\ Position(book_recs[s][k]) \in FinalCut(s)
           /\ book_recs[s][k] = books[Position(book_recs[s][k])]
      /\ \A k, l \in 1..Len(book_recs[s]) :
           k < l => Position(book_recs[s][k]) < Position(book_recs[s][l])
\* fewer than final_top_k records, although a row of the category that
\* matches a hit was left out by the cut to initial_top_k
C4_Witness ==
  \E s \in Sessions :
    /\ Returned(s)
    /\ call[s].tone \notin RecognizedTones
    /\ call[s].category = Fiction
    /\ Len(book_recs[s]) < call[s].final_top_k
    /\ \E i \in Matching(s) \ InitialCut(s) : books[i].simple_categories = Fiction

\* C5: a returned record is a catalog row with the ISBN of some hit; a hit
\* without a catalog row raises nothing; an empty result is returned as an
\* empty list.
C5_OnlyHitRowsAndEmptyIsNoError ==
  \A s \in Sessions :
    /\ Returned(s) =>
         \A k \in 1..Len(book_recs[s]) :
           /\ Position(book_recs[s][k]) \in 1..Len(books)
           /\ book_recs[s][k] = books[Position(book_recs[s][k])]
           /\ \E i \in 1..Len(recs[s]) :
                IntOf(ContentTokens(recs[s][i])[1]) = book_recs[s][k].isbn13
    /\ (pc[s] = "raised"
          /\ \A i \in 1..Len(recs[s]) :
               /\ ContentTokens(recs[s][i]) # <<>>
               /\ IsIntLiteral(ContentTokens(recs[s][i])[1])) =>
         book_recs[s] # <<>>
    /\ (pc[s] = "formatted" /\ book_recs[s] = <<>>) => results[s] = <<>>
C5_Witness ==
  \E s \in Sessions :
    /\ pc[s] = "formatted"
    /\ results[s] = <<>>
    /\ call[s].category = All
    /\ recs[s] # <<>>
    /\ \A h \in HitIsbns(s) : \A i \in 1..Len(books) : books[i].isbn13 # h

\* C6: a selected record without authors, or a hit with a malformed leading
\* token, raises nothing: every call of recommend_books completes.
C6_NoCallRaises ==
  \A s \in Sessions : call[s].fn = "recommend_books" => pc[s] # "raised"

\* the names an authors field was written from, and the phrase the claim
\* gives for them
NamesOf(authors) == CHOOSE names \in NameLists : AuthorsField(names) = authors
RECURSIVE CommaList(_, _)
CommaList(names, k) ==
  IF k = 1 THEN names[1]
  ELSE CommaList(names, k - 1) \o <<",", " ">> \o names[k]
ClaimedPhrase(names) ==
  CASE Len(names) = 1 -> names[1]
    [] Len(names) = 2 -> names[1] \o <<" ", "a", "n", "d", " ">> \o names[2]
    [] Len(names) > 2 ->
         CommaList(names, Len(names) - 1) \o <<",", " ", "a", "n", "d", " ">>
           \o names[Len(names)]

ShapeOf(description) ==
  CHOOSE sh \in DescriptionShapes :
    DescriptionText(sh.n, sh.sep, sh.pad) = description
RECURSIVE WordsFromTo(_, _)
WordsFromTo(a, b) ==
  IF a > b THEN <<>>
  ELSE IF a = b THEN Word(a)
  ELSE WordsFromTo(a, (a + b) \div 2) \o <<" ">> \o WordsFromTo((a + b) \div 2 + 1, b)
FirstWords(k) == WordsFromTo(1, k)
ClaimedTruncation(description) ==
  LET n == ShapeOf(description).n
  IN  FirstWords(IF n < 30 THEN n ELSE 30) \o <<".", ".", ".">>

\* C8: the caption ends with the first min(30, n) words of the description,
\* single blanks between them, and "..." after them in every case.
C8_FirstThirtyWordsAndEllipsis ==
  \A s \in Sessions :
    pc[s] = "formatted" =>
      \A i \in 1..Len(results[s]) :
        results[s][i].caption =
          book_recs[s][i].title \o <<" ", "b", "y", " ">>
            \o AuthorsStr(book_recs[s][i].authors) \o <<":", " ">>
            \o ClaimedTruncation(book_recs[s][i].description)
C8_Witness ==
  \E s \in Sessions :
    /\ pc[s] = "formatted"
    /\ results[s] # <<>>
    /\ ShapeOf(book_recs[s][1].description).n > 30
    /\ ShapeOf(book_recs[s][1].description).sep = <<"\n">>

\* C9: no query, alone or interleaved with another session's, changes the
\* catalog or the index, and every query returns what it returns on the
\* catalog as it was at the end of startup.
StartupBooks == LoadBooks(ConcurrentInput.csv)
C10_ToneOnlyReorders ==
  \A s \in Sessions :
    Returned(s) =>
      /\ \A frame \in Recommendations(books, recs[s], call[s].category, All,
                                      call[s].initial_top_k, call[s].final_top_k) :
           /\ Len(frame) = Len(book_recs[s])
           /\ Range(frame) = Range(book_recs[s])
      /\ {Position(r) : r \in Range(book_recs[s])} = FinalCut(s)
\* a row left out by the cut to final_top_k scores higher than every
\* returned record
C10_Witness ==
  \E s \in Sessions :
    /\ Returned(s)
    /\ call[s].tone = Happy
    /\ book_recs[s] # <<>>
    /\ \E i \in OfCategory(s, InitialCut(s)) \ FinalCut(s) :
         \A k \in 1..Len(book_recs[s]) : books[i].joy > book_recs[s][k].joy

====
